---- MODULE Spec2Model ----
(***************************************************************************)
(* Model of scripts/xdp_gate.c: the XDP program xdp_lidar_gate and the     *)
(* BPF array map gate_map it shares with the user-space configurator.      *)
(*                                                                         *)
(* One invocation of xdp_lidar_gate is split at its accesses to the shared *)
(* map; the header parsing works on the frame, which is private to the     *)
(* invocation, and is one step.                                            *)
(***************************************************************************)
EXTENDS Integers, FiniteSets, Sequences, TLC

(***************************************************************************)
(* Bounds of the model.                                                    *)
(***************************************************************************)
\* execution contexts (receive queues) of the concurrent specification
NumCPU == 2
\* invocations started in one behaviour of the concurrent specification
MaxCalls == 3

(***************************************************************************)
(* Program constants.                                                      *)
(***************************************************************************)
ETH_HLEN == 14
IPHDR_LEN == 20
UDPHDR_LEN == 8
ETH_P_IP == 2048
IPPROTO_UDP == 17
LIDAR_PORT == 7502
max_entries == 4
key_pct == 0
key_pass == 1
\* key 3 exists (max_entries is 4) and no line of the program names it
key_unused == 3
key_drop == 2
NULL == -1
\* half of the 32-bit word bpf_get_prandom_u32() returns (line 58): 2^16
HalfWord == 65536
XDP_PASS == "XDP_PASS"
XDP_DROP == "XDP_DROP"

Keys == 0 .. (max_entries - 1)
CPUs == 1 .. NumCPU

(***************************************************************************)
(* Frames.  A frame is len bytes; the record holds the bytes the program   *)
(* can look at: the ethertype (bytes 12..13, big-endian), the version/IHL  *)
(* byte (14), the IPv4 protocol byte (23) and the 16-bit big-endian word   *)
(* two bytes after the place where the IHL field puts the UDP header.      *)
(* Every other byte is 0.                                                  *)
(***************************************************************************)
Frame(len, h_proto, ihl, protocol, dest) ==
    [len |-> len, h_proto |-> h_proto, ihl |-> ihl, protocol |-> protocol, dest |-> dest]

\* the byte of frame f at offset off, as it is on the wire
ByteAt(f, off) ==
    IF off = 12 THEN f.h_proto \div 256
    ELSE IF off = 13 THEN f.h_proto % 256
    ELSE IF off = 14 THEN 4 * 16 + f.ihl
    ELSE IF off = 23 THEN f.protocol
    ELSE IF off = ETH_HLEN + 4 * f.ihl + 2 THEN f.dest \div 256
    ELSE IF off = ETH_HLEN + 4 * f.ihl + 3 THEN f.dest % 256
    ELSE 0

\* a 16-bit load by the (little-endian) BPF target
Load16(f, off) == ByteAt(f, off) + 256 * ByteAt(f, off + 1)

htons(x) == (x % 256) * 256 + (x \div 256)

(***************************************************************************)
(* Header parsing, lines 23-44.  Each test is an operator of its own; the  *)
(* offsets are those of struct ethhdr, struct iphdr and struct udphdr.     *)
(***************************************************************************)
\* line 25: (void *)(eth + 1) > data_end, negated
EthHdrFits(f) == ETH_HLEN <= f.len

\* line 27: eth->h_proto is at offset 12
IsIPv4(f) == Load16(f, 12) = htons(ETH_P_IP)

\* line 32: (void *)(ip + 1) > data_end, negated
IpHdrFits(f) == ETH_HLEN + IPHDR_LEN <= f.len

\* line 34: ip->protocol is at offset 14 + 9
IsUDP(f) == ByteAt(f, ETH_HLEN + 9) = IPPROTO_UDP

\* line 38: ip->ihl is the low nibble of the first byte of the IPv4 header
IhlOf(f) == ByteAt(f, ETH_HLEN) % 16

\* line 38: udp = (void *)ip + (ip->ihl * 4)
UdpOff(f) == ETH_HLEN + IhlOf(f) * 4

\* faulty variants of the test of line 39: the test left out, and >= for >
UdpHdrUnchecked(f) == TRUE

UdpHdrFitsStrict(f) == UdpOff(f) + UDPHDR_LEN < f.len

\* line 39: (void *)(udp + 1) > data_end, negated
UdpHdrFits(f) == UdpOff(f) + UDPHDR_LEN <= f.len

\* faulty variant of the test of line 43: the port not converted by htons
DestIsLidarHostOrder(f) == Load16(f, UdpOff(f) + 2) = LIDAR_PORT

\* line 43: udp->dest is at offset 2 of the UDP header
DestIsLidar(f) == Load16(f, UdpOff(f) + 2) = htons(LIDAR_PORT)

\* the frame offsets each field read touches
HProtoBytes == {12, 13}
ProtocolBytes == {ETH_HLEN + 9}
IhlBytes == {ETH_HLEN}
DestBytes(f) == {UdpOff(f) + 2, UdpOff(f) + 3}

ParseResult(lidar, reads, tests) == [lidar |-> lidar, reads |-> reads, tests |-> tests]

\* lines 23-44 as the code runs them: lidar is TRUE when no test returned
\* XDP_PASS, reads are the frame offsets read on the way, tests the field
\* tests reached
Parse(f) ==
    IF ~EthHdrFits(f) THEN ParseResult(FALSE, {}, {})
    ELSE IF ~IsIPv4(f) THEN ParseResult(FALSE, HProtoBytes, {"h_proto"})
    ELSE IF ~IpHdrFits(f) THEN ParseResult(FALSE, HProtoBytes, {"h_proto"})
    ELSE IF ~IsUDP(f) THEN
        ParseResult(FALSE, HProtoBytes \cup ProtocolBytes, {"h_proto", "protocol"})
    ELSE IF ~UdpHdrFits(f) THEN
        ParseResult(FALSE, HProtoBytes \cup ProtocolBytes \cup IhlBytes,
                    {"h_proto", "protocol"})
    ELSE IF ~DestIsLidar(f) THEN
        ParseResult(FALSE, HProtoBytes \cup ProtocolBytes \cup IhlBytes \cup DestBytes(f),
                    {"h_proto", "protocol", "dest"})
    ELSE
        ParseResult(TRUE, HProtoBytes \cup ProtocolBytes \cup IhlBytes \cup DestBytes(f),
                    {"h_proto", "protocol", "dest"})

(***************************************************************************)
(* State.                                                                  *)
(***************************************************************************)
VARIABLES
    gate_map,   \* the BPF array map: key -> __u64
    ncpu,       \* execution contexts the program is attached on
    budget,     \* invocations the dispatcher will still start
    pc,         \* per context: where its invocation stands
    frame,      \* per context: the frame of its invocation (ctx)
    pct,        \* per context: *drop_pct as loaded on line 49, NULL before
    pct2,       \* per context: *drop_pct as compared on line 59, NULL before
    rand,       \* per context: the draw of line 58, NULL before
    tmp,        \* per context: the value loaded by an increment under way
    ret,        \* per context: the value returned, "NONE" before
    reads,      \* per context: frame offsets read by the invocation
    tests,      \* per context: header field tests the invocation reached
    delta,      \* per context: net change its own steps made to each key
    nPass,      \* LiDAR invocations that returned XDP_PASS since the last reset
    nDrop,      \* LiDAR invocations that returned XDP_DROP since the last reset
    wasReset    \* the configurator has reset the counters

vars == <<gate_map, ncpu, budget, pc, frame, pct, pct2, rand, tmp, ret, reads, tests,
          delta, nPass, nDrop, wasReset>>

Running == {p \in 1 .. ncpu : pc[p] \notin {"idle", "done"}}

NoFrame == Frame(0, 0, 0, 0, 0)

ZeroDelta == [k \in Keys |-> 0]

(***************************************************************************)
(* Helpers of the BPF runtime.                                             *)
(***************************************************************************)
\* lines 48, 52, 62, 69: an array map holds every key below max_entries
bpf_map_lookup_elem(key) == IF key \in Keys THEN key ELSE NULL

\* faulty variant: the percentage kept in a constant fixed when the program
\* is loaded, when the map is still zero
DerefAtLoad(ptr) == 0

\* lines 49, 59: *drop_pct, a load from the map's own memory
Deref(ptr) == gate_map[ptr]

\* faulty variant: a plain (*cnt)++, a load and a store another context can
\* come between
plain_increment == FALSE

\* lines 53, 63, 70: __sync_fetch_and_add is one atomic read-modify-write
sync_fetch_and_add_atomic == TRUE

\* faulty variant: __sync_fetch_and_sub
Decremented(v) == v - 1

\* lines 53, 63, 70: the value __sync_fetch_and_add(cnt, 1) leaves in *cnt.
\* The values are __u64; the counters of the model start at 0 and stay far
\* below 2^64, where the addition does not wrap
Incremented(v) == v + 1

\* faulty variant: the test *drop_pct == 0 left out
GateOpenOnlyIfAbsent(drop_pct, v) == drop_pct = NULL

\* line 49: !drop_pct || *drop_pct == 0
GateIsOpen(drop_pct, v) == drop_pct = NULL \/ v = 0

\* faulty variant: % 101
DrawMod101(w) == w % 101

\* line 58: bpf_get_prandom_u32() % 100, w the 32-bit word returned
DrawOf(w) == w % 100

\* faulty variant: a burst limiter, no drop once a frame was dropped
RandBelowFirstDropOnly(r, drop_pct) == r < drop_pct /\ gate_map[key_drop] = 0

\* faulty variant: the 64-bit value cut to its low 16 bits before the compare
RandBelowLowHalf(r, drop_pct) == r < drop_pct % HalfWord

\* faulty variant: <= for <
RandNotAbove(r, drop_pct) == r <= drop_pct

\* line 59: __u32 rand promoted to __u64 and compared unsigned
RandBelow(r, drop_pct) == r < drop_pct

\* faulty variant: draw again until the draw is below drop_percentage
RedrawUnlessBelow(below) == IF below THEN "count_drop" ELSE "prandom"

\* lines 59-71: the branch taken after the comparison; there is no loop
AfterCompare(below) == IF below THEN "count_drop" ELSE "count_pass"

\* faulty variant: the counter chosen by reading *drop_pct once more
CounterByReread(decision) == IF gate_map[key_pct] # 0 THEN key_drop ELSE key_pass

\* lines 51, 61, 68: key_pass before return XDP_PASS, key_drop before
\* return XDP_DROP
CounterFor(decision) == IF decision = XDP_DROP THEN key_drop ELSE key_pass

\* the net change a step made to the map, added to what p changed before
Account(p) ==
    delta' = [delta EXCEPT ![p] = [k \in Keys |-> @[k] + gate_map'[k] - gate_map[k]]]

\* lines 52-54, 62-64, 69-71: look the counter up, add 1 to it, return
Count(p, key, decision) ==
    LET cnt == bpf_map_lookup_elem(key)
        returns ==
            /\ pc' = [pc EXCEPT ![p] = "done"]
            /\ ret' = [ret EXCEPT ![p] = decision]
            /\ nPass' = IF decision = XDP_PASS THEN nPass + 1 ELSE nPass
            /\ nDrop' = IF decision = XDP_DROP THEN nDrop + 1 ELSE nDrop
    IN  /\ IF cnt = NULL THEN
               /\ gate_map' = gate_map
               /\ tmp' = tmp
               /\ returns
           ELSE IF sync_fetch_and_add_atomic THEN
               /\ gate_map' = [gate_map EXCEPT ![cnt] = Incremented(@)]
               /\ tmp' = tmp
               /\ returns
           ELSE IF tmp[p] = NULL THEN
               /\ tmp' = [tmp EXCEPT ![p] = gate_map[cnt]]
               /\ UNCHANGED <<gate_map, pc, ret, nPass, nDrop>>
           ELSE
               /\ gate_map' = [gate_map EXCEPT ![cnt] = Incremented(tmp[p])]
               /\ tmp' = [tmp EXCEPT ![p] = NULL]
               /\ returns
        /\ Account(p)
        /\ UNCHANGED <<ncpu, budget, frame, pct, pct2, rand, reads, tests, wasReset>>

(***************************************************************************)
(* xdp_lidar_gate, one action per step.                                    *)
(***************************************************************************)
\* lines 19-44: the dispatcher calls the program with frame f; the headers
\* are parsed, and a frame that is not LiDAR traffic returns XDP_PASS
Start(p, f) ==
    LET r == Parse(f) IN
    /\ pc[p] \in {"idle", "done"}
    /\ budget > 0
    /\ budget' = budget - 1
    /\ frame' = [frame EXCEPT ![p] = f]
    /\ reads' = [reads EXCEPT ![p] = r.reads]
    /\ tests' = [tests EXCEPT ![p] = r.tests]
    /\ pc' = [pc EXCEPT ![p] = IF r.lidar THEN "lookup_pct" ELSE "done"]
    /\ ret' = [ret EXCEPT ![p] = IF r.lidar THEN "NONE" ELSE XDP_PASS]
    /\ pct' = [pct EXCEPT ![p] = NULL]
    /\ pct2' = [pct2 EXCEPT ![p] = NULL]
    /\ rand' = [rand EXCEPT ![p] = NULL]
    /\ tmp' = [tmp EXCEPT ![p] = NULL]
    /\ delta' = [delta EXCEPT ![p] = ZeroDelta]
    /\ UNCHANGED <<gate_map, ncpu, nPass, nDrop, wasReset>>

\* lines 47-49: look key 0 up and test it
LookupPct(p) ==
    LET drop_pct == bpf_map_lookup_elem(key_pct)
        v == IF drop_pct = NULL THEN NULL ELSE Deref(drop_pct)
    IN  /\ pc[p] = "lookup_pct"
        /\ pct' = [pct EXCEPT ![p] = v]
        /\ pc' = [pc EXCEPT ![p] = IF GateIsOpen(drop_pct, v) THEN "gate_open" ELSE "prandom"]
        /\ UNCHANGED gate_map
        /\ Account(p)
        /\ UNCHANGED <<ncpu, budget, frame, pct2, rand, tmp, ret, reads, tests, nPass, nDrop, wasReset>>

\* lines 50-54: gate open
GateOpen(p) ==
    /\ pc[p] = "gate_open"
    /\ Count(p, CounterFor(XDP_PASS), XDP_PASS)

\* line 58: bpf_get_prandom_u32() returns the 32-bit word w
Prandom(p, w) ==
    /\ pc[p] = "prandom"
    /\ rand' = [rand EXCEPT ![p] = DrawOf(w)]
    /\ pc' = [pc EXCEPT ![p] = "compare"]
    /\ UNCHANGED gate_map
    /\ Account(p)
    /\ UNCHANGED <<ncpu, budget, frame, pct, pct2, tmp, ret, reads, tests, nPass, nDrop, wasReset>>

\* line 59: rand < *drop_pct.  *drop_pct is a plain load that races with the
\* configurator: the build either loads it again or keeps the value of line 49
Compare(p) ==
    /\ pc[p] = "compare"
    /\ \E v \in {pct[p], Deref(key_pct)} :
          /\ pct2' = [pct2 EXCEPT ![p] = v]
          /\ pc' = [pc EXCEPT ![p] = AfterCompare(RandBelow(rand[p], v))]
    /\ UNCHANGED gate_map
    /\ Account(p)
    /\ UNCHANGED <<ncpu, budget, frame, pct, rand, tmp, ret, reads, tests, nPass, nDrop, wasReset>>

\* lines 60-64
CountDrop(p) ==
    /\ pc[p] = "count_drop"
    /\ Count(p, CounterFor(XDP_DROP), XDP_DROP)

\* lines 67-71
CountPass(p) ==
    /\ pc[p] = "count_pass"
    /\ Count(p, CounterFor(XDP_PASS), XDP_PASS)

(***************************************************************************)
(* The configurator (user space): writes key 0, resets keys 1 and 2.       *)
(***************************************************************************)
PctValues == {0, 1, 50, 100, 101, HalfWord}

ConfigWrite(v) ==
    /\ gate_map[key_pct] # v
    /\ gate_map' = [gate_map EXCEPT ![key_pct] = v]
    /\ UNCHANGED <<ncpu, budget, pc, frame, pct, pct2, rand, tmp, ret, reads, tests,
                   delta, nPass, nDrop, wasReset>>

ConfigReset ==
    /\ gate_map[key_pass] + gate_map[key_drop] > 0
    /\ gate_map' = [gate_map EXCEPT ![key_pass] = 0, ![key_drop] = 0]
    /\ nPass' = 0
    /\ nDrop' = 0
    /\ wasReset' = TRUE
    /\ UNCHANGED <<ncpu, budget, pc, frame, pct, pct2, rand, tmp, ret, reads, tests, delta>>

(***************************************************************************)
(* Inputs.                                                                 *)
(***************************************************************************)
\* 7502, its neighbour, and 7502 with its two bytes swapped
Ports == {LIDAR_PORT, LIDAR_PORT + 1, 19997}

\* frame lengths around each bounds check, for the IHL of the frame
Lens(ihl) == {ETH_HLEN - 1, ETH_HLEN, ETH_HLEN + IPHDR_LEN - 1, ETH_HLEN + IPHDR_LEN,
              ETH_HLEN + 4 * ihl + UDPHDR_LEN - 1, ETH_HLEN + 4 * ihl + UDPHDR_LEN}

\* a frame has no bytes at or beyond its length: fields there are 0
Exists(len, h_proto, ihl, protocol, dest) ==
    /\ len < ETH_HLEN => h_proto = 0
    /\ len <= ETH_HLEN => ihl = 0
    /\ len <= ETH_HLEN + 9 => protocol = 0
    /\ len <= ETH_HLEN + 4 * ihl + 3 => dest = 0

\* an ethertype and an IP protocol the program does not handle: IPv6, TCP
OtherEtherTypes == {34525}
OtherProtocols == {6}

\* every frame of these lengths and field values; a frame that is not IPv4,
\* or not UDP, carries what would make it LiDAR traffic otherwise
Frames ==
    { Frame(x[1], x[2], x[3], x[4], x[5]) :
        x \in { y \in (0 .. 82) \X ({0, ETH_P_IP} \cup OtherEtherTypes) \X (0 .. 15)
                      \X ({0, IPPROTO_UDP} \cup OtherProtocols) \X ({0} \cup Ports) :
                  /\ y[1] \in Lens(y[3])
                  /\ Exists(y[1], y[2], y[3], y[4], y[5])
                  /\ y[1] >= ETH_HLEN => y[2] # 0
                  /\ y[1] > ETH_HLEN + 9 => y[4] # 0
                  /\ y[1] > ETH_HLEN + 4 * y[3] + 3 => y[5] # 0
                  /\ y[2] \in OtherEtherTypes =>
                        y[4] \in {0, IPPROTO_UDP} /\ y[5] \in {0, LIDAR_PORT}
                  /\ y[4] \in OtherProtocols => y[5] \in {0, LIDAR_PORT} } }

RandWords == (0 .. 100) \cup {2147483647}

ConcFrames ==
    { Frame(ETH_HLEN + IPHDR_LEN + UDPHDR_LEN, ETH_P_IP, 5, IPPROTO_UDP, LIDAR_PORT),
      Frame(ETH_HLEN + IPHDR_LEN + UDPHDR_LEN, ETH_P_IP, 5, IPPROTO_UDP, LIDAR_PORT + 1) }

ConcWords == {0, 99}

ConcPct == {0, 50, 100}

(***************************************************************************)
(* Specifications.                                                         *)
(***************************************************************************)
InitOn(n, calls) ==
    /\ gate_map = [k \in Keys |-> 0]
    /\ ncpu = n
    /\ budget = calls
    /\ pc = [p \in CPUs |-> "idle"]
    /\ frame = [p \in CPUs |-> NoFrame]
    /\ pct = [p \in CPUs |-> NULL]
    /\ pct2 = [p \in CPUs |-> NULL]
    /\ rand = [p \in CPUs |-> NULL]
    /\ tmp = [p \in CPUs |-> NULL]
    /\ ret = [p \in CPUs |-> "NONE"]
    /\ reads = [p \in CPUs |-> {}]
    /\ tests = [p \in CPUs |-> {}]
    /\ delta = [p \in CPUs |-> ZeroDelta]
    /\ nPass = 0
    /\ nDrop = 0
    /\ wasReset = FALSE

\* one invocation, on any frame, with any draw, racing with the configurator
Init == InitOn(1, 1)

\* MaxCalls invocations on NumCPU execution contexts
InitConc == InitOn(NumCPU, MaxCalls)

Next ==
    \/ \E p \in 1 .. ncpu, f \in Frames : Start(p, f)
    \/ \E p \in 1 .. ncpu : LookupPct(p)
    \/ \E p \in 1 .. ncpu : GateOpen(p)
    \/ \E p \in 1 .. ncpu, w \in RandWords : Prandom(p, w)
    \/ \E p \in 1 .. ncpu : Compare(p)
    \/ \E p \in 1 .. ncpu : CountDrop(p)
    \/ \E p \in 1 .. ncpu : CountPass(p)
    \/ \E v \in PctValues : ConfigWrite(v)
    \/ ConfigReset

NextConc ==
    \/ \E p \in 1 .. ncpu, f \in ConcFrames : Start(p, f)
    \/ \E p \in 1 .. ncpu : LookupPct(p)
    \/ \E p \in 1 .. ncpu : GateOpen(p)
    \/ \E p \in 1 .. ncpu, w \in ConcWords : Prandom(p, w)
    \/ \E p \in 1 .. ncpu : Compare(p)
    \/ \E p \in 1 .. ncpu : CountDrop(p)
    \/ \E p \in 1 .. ncpu : CountPass(p)
    \/ \E v \in ConcPct : ConfigWrite(v)
    \/ ConfigReset

Spec == Init /\ [][Next]_vars

SpecConc == InitConc /\ [][NextConc]_vars

(***************************************************************************)
(* Vocabulary of the properties, in terms of the bytes on the wire.        *)
(***************************************************************************)
Returned(p) == p \in 1 .. ncpu /\ pc[p] = "done"

CountersUntouched(p) == delta[p][key_pass] = 0 /\ delta[p][key_drop] = 0

\* Ethernet/IPv4/UDP: every header is in the frame and says so
ParsesAsUdp(f) ==
    /\ f.len >= ETH_HLEN
    /\ f.h_proto = ETH_P_IP
    /\ f.len >= ETH_HLEN + IPHDR_LEN
    /\ f.protocol = IPPROTO_UDP
    /\ f.len >= ETH_HLEN + 4 * f.ihl + UDPHDR_LEN

\* a well-formed Ethernet/IPv4/UDP packet addressed to port 7502
WellFormedLidar(f) ==
    /\ ParsesAsUdp(f)
    /\ 4 * f.ihl >= IPHDR_LEN
    /\ f.dest = LIDAR_PORT

(***************************************************************************)
(* C1: a frame that is not a well-formed Ethernet/IPv4/UDP packet to port  *)
(* 7502 returns XDP_PASS and leaves passed_count and dropped_count alone,  *)
(* whatever drop_percentage is.  Violated: the IHL field is never compared *)
(* with 5, so a frame with IHL < 5 whose bytes at 14 + 4*IHL + 2 are 7502  *)
(* is counted, and dropped when the draw says so.                          *)
(***************************************************************************)
C1_NonQualifyingPassesUntouched ==
    \A p \in CPUs :
        Returned(p) /\ ~WellFormedLidar(frame[p])
            => ret[p] = XDP_PASS /\ CountersUntouched(p)

(***************************************************************************)
(* C2: on a qualifying frame, when the lookup of key 0 finds nothing or    *)
(* the value read is 0, the invocation returns XDP_PASS, has added exactly *)
(* 1 to passed_count and nothing to dropped_count, and has drawn no random *)
(* number.                                                                 *)
(***************************************************************************)
C2_GateOpen ==
    \A p \in CPUs :
        Returned(p) /\ WellFormedLidar(frame[p]) /\ pct[p] \in {NULL, 0}
            => /\ ret[p] = XDP_PASS
               /\ delta[p][key_pass] = 1
               /\ delta[p][key_drop] = 0
               /\ rand[p] = NULL

C2_Witness ==
    \E p \in CPUs :
        /\ Returned(p) /\ WellFormedLidar(frame[p]) /\ pct[p] = 0
        /\ ret[p] = XDP_PASS /\ gate_map[key_pass] = 1

(***************************************************************************)
(* C3: on a qualifying frame, when drop_percentage is 100 (both reads of   *)
(* the invocation see 100), whatever the draw, the invocation returns      *)
(* XDP_DROP, has added exactly 1 to dropped_count and nothing to           *)
(* passed_count.                                                           *)
(***************************************************************************)
C3_GateFull ==
    \A p \in CPUs :
        Returned(p) /\ WellFormedLidar(frame[p]) /\ pct[p] = 100 /\ pct2[p] = 100
            => /\ ret[p] = XDP_DROP
               /\ delta[p][key_drop] = 1
               /\ delta[p][key_pass] = 0

C3_Witness ==
    \E p \in CPUs :
        /\ Returned(p) /\ WellFormedLidar(frame[p]) /\ pct[p] = 100 /\ pct2[p] = 100
        /\ rand[p] = 99 /\ ret[p] = XDP_DROP /\ gate_map[key_drop] = 1

(***************************************************************************)
(* C4: on a qualifying frame compared against drop_percentage p in 1..100  *)
(* with draw d: d is in 0..99; d < p gives XDP_DROP with dropped_count + 1 *)
(* and passed_count unchanged; d >= p gives XDP_PASS with passed_count + 1 *)
(* and dropped_count unchanged.  Every qualifying frame changes exactly    *)
(* one of the two counters, by exactly 1.                                  *)
(***************************************************************************)
C4_DrawDecides ==
    \A p \in CPUs :
        Returned(p) /\ WellFormedLidar(frame[p])
            => /\ {delta[p][key_pass], delta[p][key_drop]} = {0, 1}
               /\ pct2[p] \in 1 .. 100 =>
                     /\ rand[p] \in 0 .. 99
                     /\ rand[p] < pct2[p] =>
                           /\ ret[p] = XDP_DROP
                           /\ delta[p][key_drop] = 1
                           /\ delta[p][key_pass] = 0
                     /\ rand[p] >= pct2[p] =>
                           /\ ret[p] = XDP_PASS
                           /\ delta[p][key_pass] = 1
                           /\ delta[p][key_drop] = 0

C4_Witness ==
    \E p \in CPUs :
        /\ Returned(p) /\ WellFormedLidar(frame[p])
        /\ pct2[p] = 50 /\ rand[p] = 50
        /\ ret[p] = XDP_PASS /\ gate_map[key_pass] = 1

(***************************************************************************)
(* C5: concurrent invocations lose no counter update: when every           *)
(* invocation has returned and the configurator has reset nothing,         *)
(* passed_count is the number of invocations on LiDAR frames that returned *)
(* XDP_PASS and dropped_count the number that returned XDP_DROP.           *)
(***************************************************************************)
C5_NoLostUpdate ==
    Running = {} /\ ~wasReset
        => gate_map[key_pass] = nPass /\ gate_map[key_drop] = nDrop

C5_Witness ==
    /\ Running = {} /\ ~wasReset /\ budget = 0
    /\ \A p \in 1 .. ncpu : Returned(p) /\ WellFormedLidar(frame[p])
    /\ nPass >= 1 /\ nDrop >= 1 /\ nPass + nDrop = MaxCalls
    /\ gate_map[key_pass] = nPass /\ gate_map[key_drop] = nDrop

(***************************************************************************)
(* C6: truncation at each parsing stage.  A frame of 13 bytes, an IPv4     *)
(* frame of 33 bytes and an IPv4/UDP frame of 14 + 4*IHL + 7 bytes return  *)
(* XDP_PASS with no counter change.  A frame of 14 bytes reaches the       *)
(* ethertype test, an IPv4 frame of 34 bytes the protocol test.  As        *)
(* claimed, an IPv4/UDP frame of 14 + 4*IHL + 8 bytes reaches the          *)
(* destination-port test for every IHL: C6_AsClaimed.  As amended, it does *)
(* when IHL >= 3; with IHL < 3 the frame is shorter than 34 bytes and      *)
(* returns XDP_PASS before the protocol test: C6_Truncation.               *)
(***************************************************************************)
C6_OneShort(p) ==
    LET f == frame[p] IN
    /\ f.len = ETH_HLEN - 1 =>
          ret[p] = XDP_PASS /\ CountersUntouched(p) /\ tests[p] = {}
    /\ f.h_proto = ETH_P_IP /\ f.len = ETH_HLEN + IPHDR_LEN - 1 =>
          ret[p] = XDP_PASS /\ CountersUntouched(p) /\ "protocol" \notin tests[p]
    /\ f.h_proto = ETH_P_IP /\ f.protocol = IPPROTO_UDP
           /\ f.len = ETH_HLEN + 4 * f.ihl + UDPHDR_LEN - 1 =>
          ret[p] = XDP_PASS /\ CountersUntouched(p) /\ "dest" \notin tests[p]

C6_ExactEthIp(p) ==
    LET f == frame[p] IN
    /\ f.len = ETH_HLEN => "h_proto" \in tests[p]
    /\ f.h_proto = ETH_P_IP /\ f.len = ETH_HLEN + IPHDR_LEN => "protocol" \in tests[p]

C6_ExactUdp(f) ==
    /\ f.h_proto = ETH_P_IP
    /\ f.protocol = IPPROTO_UDP
    /\ f.len = ETH_HLEN + 4 * f.ihl + UDPHDR_LEN

C6_AsClaimed ==
    \A p \in CPUs :
        Returned(p) =>
            /\ C6_OneShort(p)
            /\ C6_ExactEthIp(p)
            /\ C6_ExactUdp(frame[p]) => "dest" \in tests[p]

C6_Truncation ==
    \A p \in CPUs :
        Returned(p) =>
            /\ C6_OneShort(p)
            /\ C6_ExactEthIp(p)
            /\ C6_ExactUdp(frame[p]) /\ frame[p].ihl >= 3 => "dest" \in tests[p]
            /\ C6_ExactUdp(frame[p]) /\ frame[p].ihl < 3 =>
                  /\ ret[p] = XDP_PASS /\ CountersUntouched(p)
                  /\ tests[p] = {"h_proto"}

C6_Witness ==
    \E p \in CPUs :
        /\ Returned(p) /\ C6_ExactUdp(frame[p]) /\ frame[p].ihl = 6
        /\ "dest" \in tests[p]

(***************************************************************************)
(* C7: every frame offset an invocation reads is below the frame length,   *)
(* for every frame length and every IHL 0..15.                             *)
(***************************************************************************)
C7_ReadsInBounds ==
    \A p \in CPUs : \A off \in reads[p] : 0 <= off /\ off < frame[p].len

C7_Witness ==
    \E p \in CPUs :
        /\ Returned(p) /\ frame[p].ihl = 15
        /\ frame[p].len = ETH_HLEN + 4 * 15 + UDPHDR_LEN
        /\ reads[p] = {12, 13, 14, 23, 76, 77}

(***************************************************************************)
(* C8: a frame that parses as Ethernet/IPv4/UDP and whose destination port *)
(* is not 7502 returns XDP_PASS with no counter change, without consulting *)
(* drop_percentage, whatever it is.                                        *)
(***************************************************************************)
C8_OtherPortPasses ==
    \A p \in CPUs :
        Returned(p) /\ ParsesAsUdp(frame[p]) /\ frame[p].dest # LIDAR_PORT
            => /\ ret[p] = XDP_PASS
               /\ CountersUntouched(p)
               /\ pct[p] = NULL /\ rand[p] = NULL

C8_Witness ==
    \E p \in CPUs :
        /\ Returned(p) /\ ParsesAsUdp(frame[p]) /\ frame[p].dest = 19997
        /\ gate_map[key_pct] = 100 /\ ret[p] = XDP_PASS

(***************************************************************************)
(* C9: no step other than a configurator reset decreases passed_count or   *)
(* dropped_count.                                                          *)
(***************************************************************************)
C9_CountersMonotone ==
    [][ \/ ConfigReset
        \/ /\ gate_map'[key_pass] >= gate_map[key_pass]
           /\ gate_map'[key_drop] >= gate_map[key_drop] ]_vars

C9_Witness ==
    /\ ~wasReset /\ Running # {}
    /\ gate_map[key_pass] >= 1 /\ gate_map[key_drop] >= 1

(***************************************************************************)
(* C10: key 3 is never written, and key 0 changes only in a configurator   *)
(* write.                                                                  *)
(***************************************************************************)
C10_PctReadOnly ==
    [][ /\ gate_map'[key_unused] = gate_map[key_unused]
        /\ gate_map'[key_pct] # gate_map[key_pct] =>
              \E v \in PctValues \cup ConcPct : ConfigWrite(v) ]_vars

C10_Witness ==
    /\ gate_map[key_pct] = 50 /\ gate_map[key_unused] = 0
    /\ gate_map[key_pass] >= 1 /\ gate_map[key_drop] >= 1 /\ Running = {}

(***************************************************************************)
(* C11: determinism.  Two invocations that have returned, on the same      *)
(* frame, that read the same drop_percentage (on line 49 and on line 59)   *)
(* and drew the same number, returned the same decision and changed the    *)
(* same counter by the same amount, whatever the counters were when each   *)
(* ran and whatever ran before.                                            *)
(***************************************************************************)
C11_Deterministic ==
    \A p, q \in CPUs :
        /\ Returned(p) /\ Returned(q)
        /\ frame[p] = frame[q]
        /\ pct[p] = pct[q] /\ pct2[p] = pct2[q]
        /\ rand[p] = rand[q]
        => ret[p] = ret[q] /\ delta[p] = delta[q]

C11_Witness ==
    /\ Returned(1) /\ Returned(2)
    /\ frame[1] = frame[2] /\ WellFormedLidar(frame[1])
    /\ pct[1] = 50 /\ pct[2] = 50 /\ pct2[1] = 50 /\ pct2[2] = 50
    /\ rand[1] = 0 /\ rand[2] = 0
    /\ ret[1] = XDP_DROP /\ ret[2] = XDP_DROP
    /\ gate_map[key_drop] = 2

(***************************************************************************)
(* C12: every invocation returns, and returns XDP_PASS or XDP_DROP, given  *)
(* only that its own steps are taken when they can be: no fairness of the  *)
(* other contexts or of the configurator is assumed.                       *)
(***************************************************************************)
\* the steps of the invocation of context p after its start
GateStep(p) ==
    \/ LookupPct(p)
    \/ GateOpen(p)
    \/ \E w \in RandWords \cup ConcWords : Prandom(p, w)
    \/ Compare(p)
    \/ CountDrop(p)
    \/ CountPass(p)

\* an invocation and one other that interferes with it, on NumCPU contexts
InitLive == InitOn(NumCPU, 2)

SpecLive == InitLive /\ [][NextConc]_vars

\* C12: under weak fairness of its own steps alone, a running invocation
\* returns XDP_PASS or XDP_DROP
C12_Terminates ==
    \A p \in CPUs :
        WF_vars(GateStep(p)) =>
            ((pc[p] \notin {"idle", "done"})
                ~> (pc[p] = "done" /\ ret[p] \in {XDP_PASS, XDP_DROP}))

C12_Witness ==
    /\ Returned(1) /\ ret[1] = XDP_DROP
    /\ 2 \in Running /\ pc[2] = "compare"

(***************************************************************************)
(* C13: drop_percentage is read fresh by every invocation.  The value an   *)
(* invocation tests on line 49 is the value key 0 holds at that step; the  *)
(* value it compares on line 59 is the value key 0 holds at that step or   *)
(* the one it read on line 49; an invocation starts with no value read.    *)
(* So a value written before the invocation starts, with no later write,   *)
(* is the value it uses, and nothing an earlier invocation read is.        *)
(***************************************************************************)
C13_ReadsFresh ==
    [][ \A p \in CPUs :
          /\ pc[p] = "lookup_pct" /\ pc'[p] # "lookup_pct" =>
                pct'[p] = gate_map[key_pct]
          /\ pc[p] = "compare" /\ pc'[p] # "compare" =>
                pct2'[p] \in {pct[p], gate_map[key_pct]}
          /\ pc[p] # "lookup_pct" /\ pc'[p] = "lookup_pct" =>
                pct'[p] = NULL /\ pct2'[p] = NULL ]_vars

C13_Witness ==
    /\ Returned(1) /\ Returned(2)
    /\ pct[1] = 50 /\ pct2[1] = 50
    /\ pct[2] = 100 /\ pct2[2] = 100
    /\ gate_map[key_pct] = 100

(***************************************************************************)
(* C15: the draw of line 58.  bpf_get_prandom_u32() returns one of the     *)
(* 2^32 words of 32 bits.  2^32 is written as HalfWord * HalfWord and      *)
(* divided by long division, every intermediate value staying small.       *)
(***************************************************************************)
\* 2^32 \div n and 2^32 % n, for n up to 101
U32Div(n) == (HalfWord \div n) * HalfWord + ((HalfWord % n) * HalfWord) \div n
U32Mod(n) == ((HalfWord % n) * HalfWord) % n

\* the number of 32-bit words w with DrawOf(w) = r: DrawOf has period 100,
\* the 2^32 words are U32Div(100) whole periods and U32Mod(100) words more
WordsGiving ==
    [r \in 0 .. 100 |->
        U32Div(100) * Cardinality({w \in 0 .. 99 : DrawOf(w) = r})
          + Cardinality({w \in 0 .. (U32Mod(100) - 1) : DrawOf(w) = r})]

\* C15 as claimed: a draw is in 0..99 and is produced by as many 32-bit
\* words as every other value of 0..99
C15_AsClaimed ==
    \A p \in CPUs :
        rand[p] # NULL =>
            /\ rand[p] \in 0 .. 99
            /\ \A r \in 0 .. 99 : WordsGiving[rand[p]] = WordsGiving[r]

\* C15 as amended: a draw is in 0..99; the values 0..95 are each produced by
\* 42949673 words and the values 96..99 by 42949672, since
\* 2^32 = 42949672 * 100 + 96
C15_NearlyUniform ==
    \A p \in CPUs :
        rand[p] # NULL =>
            /\ rand[p] \in 0 .. 99
            /\ WordsGiving[rand[p]] = IF rand[p] <= 95 THEN 42949673 ELSE 42949672

C15_Witness ==
    \E p \in CPUs :
        /\ Returned(p) /\ rand[p] = 99 /\ frame[p].ihl = 5
        /\ WordsGiving[99] + 1 = WordsGiving[0]

(***************************************************************************)
(* C16: a configurator write racing with an invocation.  Every value the   *)
(* invocation reads is the value key 0 holds at that step (or, on line 59, *)
(* the value it read on line 49), and when it returns, its decision and    *)
(* its counter update are those the decision rule prescribes for one of    *)
(* the values it read: XDP_DROP goes with dropped_count + 1 alone,         *)
(* XDP_PASS with passed_count + 1 alone.                                   *)
(***************************************************************************)
\* the decision rule for drop_percentage v and draw d
Prescribed(v, d) ==
    IF v = 0 THEN XDP_PASS ELSE IF d # NULL /\ d < v THEN XDP_DROP ELSE XDP_PASS

DeltaFor(decision) ==
    [k \in Keys |-> IF (k = key_drop /\ decision = XDP_DROP)
                       \/ (k = key_pass /\ decision = XDP_PASS) THEN 1 ELSE 0]

C16_RaceConsistent ==
    [][ \A p \in CPUs :
          /\ pct'[p] # pct[p] => pct'[p] \in {NULL, gate_map[key_pct]}
          /\ pct2'[p] # pct2[p] => pct2'[p] \in {NULL, pct[p], gate_map[key_pct]}
          /\ pc[p] # "done" /\ pc'[p] = "done" /\ pct'[p] # NULL =>
                /\ \E v \in {pct'[p], pct2'[p]} \ {NULL} :
                      ret'[p] = Prescribed(v, rand'[p])
                /\ delta'[p] = DeltaFor(ret'[p]) ]_vars

C16_Witness ==
    \E p \in CPUs :
        /\ Returned(p) /\ WellFormedLidar(frame[p])
        /\ pct[p] = 50 /\ pct2[p] = 0 /\ rand[p] = 0
        /\ ret[p] = XDP_PASS /\ delta[p] = DeltaFor(XDP_PASS)

(***************************************************************************)
(* C17: a drop_percentage above 100 drops every qualifying frame, for      *)
(* every draw, and counts it in dropped_count alone.  The values written   *)
(* are 101 and 2^16; lines 49 and 59 use them as they are.                 *)
(***************************************************************************)
C17_AboveRangeDropsAll ==
    \A p \in CPUs :
        Returned(p) /\ pct[p] # NULL /\ pct[p] > 100 /\ pct2[p] > 100 =>
            /\ rand[p] \in 0 .. 99
            /\ ret[p] = XDP_DROP
            /\ delta[p] = [k \in Keys |-> IF k = key_drop THEN 1 ELSE 0]
            /\ {pct[p], pct2[p]} \subseteq PctValues

C17_Witness ==
    \E p \in CPUs :
        /\ Returned(p) /\ WellFormedLidar(frame[p])
        /\ pct[p] = HalfWord /\ pct2[p] = HalfWord /\ rand[p] = 99
        /\ ret[p] = XDP_DROP /\ gate_map[key_drop] = 1 /\ gate_map[key_pass] = 0

====
